---- MODULE Spec2Model ----
(***************************************************************************)
(* MongoPlugin::extend_api (src-tauri/src/mongodbApi.rs): seven command    *)
(* handlers that relay named commands to the MongoDB driver.  Each handler *)
(* is an async block; one action models the code a handler runs between    *)
(* two suspension points (.await).  The driver and the server behind it    *)
(* are the environment: every Result the driver returns is a choice        *)
(* between Ok and Err.                                                     *)
(***************************************************************************)
EXTENDS Naturals, Sequences, FiniteSets

\* ------------------------------------------------------------------ bounds
MaxBatch == 2     \* longest JSON array the front-end sends
MaxDocs == 2      \* documents a collection holds at most

Tasks == {1, 2}   \* command invocations in flight at the same time

\* ------------------------------------------------------------- environment
UpServer == "mongodb://up:27017"
DownServer == "mongodb://down:27017"
BadUri == "up:27017"
Servers == {UpServer, DownServer, BadUri}
Databases == {"app"}
Collections == {"users"}

\* The URI parses: it has the mongodb:// scheme.
UriValid(server) == server \in {UpServer, DownServer}
\* A server answers on the network.
Reachable(server) == server = UpServer

\* A document is the set of its fields (each field holds the value 1), a
\* filter document matches the documents that hold all its fields.
Fields == {"x"}
Documents == SUBSET Fields
Matches(filter, doc) == filter \subseteq doc

\* JSON texts the front-end sends in query / data / pipeline.
RECURSIVE Batch(_)
Batch(n) == IF n = 0 THEN << >>
            ELSE Append(Batch(n - 1), IF n % 2 = 1 THEN {"x"} ELSE {})
Malformed == [text |-> "malformed"]                 \* "{invalid"
Scalar == [text |-> "scalar"]                       \* "5"
ObjectText(d) == [text |-> "object", doc |-> d]     \* "{}", "{\"x\":1}"
ArrayText(ds) == [text |-> "array", docs |-> ds]    \* "[{\"x\":1},{}]"
JsonTexts == {Malformed, Scalar}
             \cup {ObjectText(d) : d \in Documents}
             \cup {ArrayText(Batch(n)) : n \in 0..MaxBatch}

\* ------------------------------------------------------- pure conversions
\* format!("<prefix>: {}", e)
Format(prefix, e) == [prefix |-> prefix, cause |-> e]

Ok(v) == [type |-> "ok", val |-> v]
Err(s) == [type |-> "err", msg |-> s]
NoResult == [type |-> "none"]

\* A parser that takes a text it cannot read for the empty document.
FromStrDocumentLenient(s) ==
  IF s.text = "malformed" THEN Ok({})
  ELSE IF s.text = "object" THEN Ok(s.doc)
  ELSE Err("invalid type")

\* serde_json::from_str into a Document: only a JSON object is one.
FromStrDocument(s) ==
  IF s.text = "malformed" THEN Err("syntax")
  ELSE IF s.text = "object" THEN Ok(s.doc)
  ELSE Err("invalid type")

\* serde_json::from_str into a list of Documents: only a JSON array is one.
FromStrDocuments(s) ==
  IF s.text = "malformed" THEN Err("syntax")
  ELSE IF s.text = "array" THEN Ok(s.docs)
  ELSE Err("invalid type")

\* serde_json::to_value of Vec<Document>, Option<Document> and &str.
JsonArray(docs) == [json |-> "array", items |-> docs]
JsonObject(doc) == [json |-> "object", doc |-> doc]
JsonNull == [json |-> "null"]
JsonString(str) == [json |-> "string", str |-> str]

\* Client::with_uri_str: parses the URI; connections are opened lazily by
\* the operations that need one.
WithUriStr(server) == IF UriValid(server) THEN Ok(server) ELSE Err("invalid uri")

\* client.database(name): the handle the front-end keeps.
Database(client, name) == [server |-> client, database |-> name]
NoHandle == [server |-> "", database |-> ""]
Handles == {Database(s, d) : s \in {UpServer, DownServer}, d \in Databases}

\* What the server's find / aggregate select from a collection's contents.
FindDocs(contents, filter) ==
  LET Test(d) == Matches(filter, d) IN SelectSeq(contents, Test)
AggregateDocs(contents, pipeline) ==
  LET Test(d) == \A i \in 1..Len(pipeline) : Matches(pipeline[i], d)
  IN SelectSeq(contents, Test)

\* ------------------------------------------------------------------- state
VARIABLES
  task,      \* task[t]: the invocation running in slot t
  store,     \* store[c]: the documents of collection c on the reachable server
  handles    \* the database handles the front-end holds

vars == <<task, store, handles>>

NoArg == [text |-> "none"]
Idle == [pc |-> "idle", cmd |-> "none", db |-> NoHandle, collection |-> "",
         arg |-> NoArg, calls |-> << >>, answer |-> "none", cursor |-> << >>,
         inserted |-> 0, result |-> NoResult]

Init ==
  /\ task = [t \in Tasks |-> Idle]
  /\ store = [c \in Collections |-> << >>]
  /\ handles = {}

\* The handler of command cmd starts in the idle slot t.
Started(t, db, collection, arg) ==
  /\ task[t].pc = "idle"
  /\ db \in handles
  /\ collection \in Collections
  /\ arg \in JsonTexts

Invocation(cmd, db, collection, arg) ==
  [Idle EXCEPT !.cmd = cmd, !.db = db, !.collection = collection, !.arg = arg]

\* A handler that gives its handle up when it returns.
ReturnDroppingHandle(inv, r) ==
  [inv EXCEPT !.pc = "done", !.result = r, !.db = NoHandle]

\* The handler returns r.
Return(inv, r) == [inv EXCEPT !.pc = "done", !.result = r]
\* The handler issues the driver operation op and suspends on it.
Await(inv, op) == [inv EXCEPT !.pc = op, !.calls = Append(@, op)]

\* The suspended driver operation of inv answers a: "ok" or "err".
Answered(inv, a) == [inv EXCEPT !.answer = a]

\* The error a failed driver operation reports.
DriverError(db) ==
  IF Reachable(db.server) THEN "command failed" ELSE "server selection timeout"

\* --------------------------------------------------------- connectDBServer
ConnectReply(client, database) ==
  IF client.type = "ok" THEN Ok(Database(client.val, database))
  ELSE Err(Format("Failed to connect", client.msg))

ConnectDBServer(t, server, database) ==
  /\ task[t].pc = "idle"
  /\ task' = [task EXCEPT ![t] =
       Return([Idle EXCEPT !.cmd = "connectDBServer",
                           !.arg = [text |-> "uri", server |-> server,
                                    database |-> database],
                           !.calls = <<"with_uri_str">>,
                           !.answer = WithUriStr(server).type],
              ConnectReply(WithUriStr(server), database))]
  /\ UNCHANGED <<store, handles>>

\* ---------------------------------------------------------------- accessDB
\* A passthrough that answers a handle of the server's default database.
AccessReplyDefault(db) == Ok([db EXCEPT !.database = "test"])

AccessReply(db) == Ok(db)

AccessDB(t, db) ==
  /\ task[t].pc = "idle"
  /\ db \in handles
  /\ task' = [task EXCEPT ![t] =
       Return([Idle EXCEPT !.cmd = "accessDB", !.db = db], AccessReply(db))]
  /\ UNCHANGED <<store, handles>>

\* -------------------------------------------------------------------- find
FindParseError == "Failed to parse query"
FindExecuteError == "Failed to execute query"
\* The read failure reported in the words of the execution failure.
FindReadErrorAsExecute == "Failed to execute query"
FindReadError == "Failed to read results"

\* Lines 63-68: parse the filter, then issue coll.find and suspend.
FindStart(inv) ==
  LET query == FromStrDocument(inv.arg)
  IN IF query.type = "err"
     THEN Return(inv, Err(Format(FindParseError, query.msg)))
     ELSE Await(inv, "find")

Find(t, db, collection, query) ==
  /\ Started(t, db, collection, query)
  /\ task' = [task EXCEPT ![t] =
       FindStart(Invocation("find", db, collection, query))]
  /\ UNCHANGED <<store, handles>>

\* coll.find answers Ok(cursor): the handler issues cursor.into_vec.
DriverFindOk(t) ==
  /\ task[t].pc = "find"
  /\ Reachable(task[t].db.server)
  /\ task' = [task EXCEPT ![t] =
       Await([Answered(@, "ok") EXCEPT !.cursor =
                FindDocs(store[task[t].collection],
                         FromStrDocument(task[t].arg).val)],
             "into_vec")]
  /\ UNCHANGED <<store, handles>>

DriverFindErr(t) ==
  /\ task[t].pc = "find"
  /\ task' = [task EXCEPT ![t] =
       Return(Answered(@, "err"),
              Err(Format(FindExecuteError, DriverError(@.db))))]
  /\ UNCHANGED <<store, handles>>

\* A reply that takes an empty result for a failure.
ArrayReplyNonEmpty(results) ==
  IF results = << >> THEN Err(Format("Failed to read results", "no results"))
  ELSE Ok(JsonArray(results))

\* Ok(serde_json::to_value(results).unwrap()) with to_value answering Ok.
ArrayReply(results) == Ok(JsonArray(results))

\* serde_json::to_value answers a Result; with nothing to serialize (an
\* empty list, None, a string literal) it has nothing to fail on.
ToValueMayFail(docs) == docs # << >>

AggregateParseError == "Failed to parse pipeline"
AggregateExecuteError == "Failed to execute aggregation"
AggregateReadError == "Failed to read aggregation results"

ReadError(cmd) == IF cmd = "find" THEN FindReadError ELSE AggregateReadError

\* cursor.into_vec answers Ok(results) and to_value answers Ok.
DriverIntoVecOk(t) ==
  /\ task[t].pc = "into_vec"
  /\ task' = [task EXCEPT ![t] =
       Return(Answered(@, "ok"), ArrayReply(@.cursor))]
  /\ UNCHANGED <<store, handles>>

\* cursor.into_vec answers Ok(results), to_value answers Err: unwrap panics.
DriverIntoVecPanic(t) ==
  /\ task[t].pc = "into_vec"
  /\ ToValueMayFail(task[t].cursor)
  /\ task' = [task EXCEPT ![t] = [Answered(@, "ok") EXCEPT !.pc = "panicked"]]
  /\ UNCHANGED <<store, handles>>

DriverIntoVecErr(t) ==
  /\ task[t].pc = "into_vec"
  /\ task' = [task EXCEPT ![t] =
       Return(Answered(@, "err"),
              Err(Format(ReadError(@.cmd), "cursor failed")))]
  /\ UNCHANGED <<store, handles>>

\* ----------------------------------------------------------------- findOne
FindOneParseError == "Failed to parse query"
FindOneExecuteError == "Failed to execute query"

FindOneStart(inv) ==
  LET query == FromStrDocument(inv.arg)
  IN IF query.type = "err"
     THEN Return(inv, Err(Format(FindOneParseError, query.msg)))
     ELSE Await(inv, "find_one")

FindOne(t, db, collection, query) ==
  /\ Started(t, db, collection, query)
  /\ task' = [task EXCEPT ![t] =
       FindOneStart(Invocation("findOne", db, collection, query))]
  /\ UNCHANGED <<store, handles>>

\* Ok(serde_json::to_value(result).unwrap()) of Option<Document>.
OptionReply(found) ==
  Ok(IF found = << >> THEN JsonNull ELSE JsonObject(Head(found)))

\* coll.find_one answers Ok(result): the first match or None.
DriverFindOneOk(t) ==
  /\ task[t].pc = "find_one"
  /\ Reachable(task[t].db.server)
  /\ task' = [task EXCEPT ![t] =
       Return(Answered(@, "ok"),
              OptionReply(FindDocs(store[@.collection],
                                   FromStrDocument(@.arg).val)))]
  /\ UNCHANGED <<store, handles>>

\* coll.find_one answers Ok(Some(doc)), to_value answers Err: unwrap panics.
DriverFindOnePanic(t) ==
  /\ task[t].pc = "find_one"
  /\ Reachable(task[t].db.server)
  /\ ToValueMayFail(FindDocs(store[task[t].collection],
                             FromStrDocument(task[t].arg).val))
  /\ task' = [task EXCEPT ![t] = [Answered(@, "ok") EXCEPT !.pc = "panicked"]]
  /\ UNCHANGED <<store, handles>>

DriverFindOneErr(t) ==
  /\ task[t].pc = "find_one"
  /\ task' = [task EXCEPT ![t] =
       Return(Answered(@, "err"),
              Err(Format(FindOneExecuteError, DriverError(@.db))))]
  /\ UNCHANGED <<store, handles>>

\* --------------------------------------------------- insertOne, insertMany
InsertOneParseError == "Failed to parse document"
InsertOneError == "Failed to insert document"
InsertManyParseError == "Failed to parse documents"
InsertManyError == "Failed to insert documents"

Success == Ok(JsonString("success"))

InsertOneStart(inv) ==
  LET doc == FromStrDocument(inv.arg)
  IN IF doc.type = "err"
     THEN Return(inv, Err(Format(InsertOneParseError, doc.msg)))
     ELSE Await(inv, "insert_one")

InsertOne(t, db, collection, data) ==
  /\ Started(t, db, collection, data)
  /\ task' = [task EXCEPT ![t] =
       InsertOneStart(Invocation("insertOne", db, collection, data))]
  /\ UNCHANGED <<store, handles>>

InsertManyStart(inv) ==
  LET docs == FromStrDocuments(inv.arg)
  IN IF docs.type = "err"
     THEN Return(inv, Err(Format(InsertManyParseError, docs.msg)))
     ELSE Await(inv, "insert_many")

InsertMany(t, db, collection, data) ==
  /\ Started(t, db, collection, data)
  /\ task' = [task EXCEPT ![t] =
       InsertManyStart(Invocation("insertMany", db, collection, data))]
  /\ UNCHANGED <<store, handles>>

\* An insertMany that hands only the first document to the driver.
PendingFirstOnly(inv) ==
  IF inv.cmd = "insertOne" THEN <<FromStrDocument(inv.arg).val>>
  ELSE LET docs == FromStrDocuments(inv.arg).val
       IN IF docs = << >> THEN << >> ELSE <<Head(docs)>>

\* The documents the pending insert operation of inv was given.
Pending(inv) ==
  IF inv.cmd = "insertOne" THEN <<FromStrDocument(inv.arg).val>>
  ELSE FromStrDocuments(inv.arg).val

\* The server stores the next document of a pending insert_one/insert_many
\* (an ordered insert: one document after the other, no transaction).
DriverInsertDoc(t) ==
  /\ task[t].pc \in {"insert_one", "insert_many"}
  /\ Reachable(task[t].db.server)
  /\ task[t].inserted < Len(Pending(task[t]))
  /\ Len(store[task[t].collection]) < MaxDocs
  /\ store' = [store EXCEPT ![task[t].collection] =
       Append(@, Pending(task[t])[task[t].inserted + 1])]
  /\ task' = [task EXCEPT ![t].inserted = @ + 1]
  /\ UNCHANGED handles

\* A reply that ignores the driver's answer.
InsertReplyAlwaysSuccess(cmd, answer) == Success

\* match coll.insert_one / insert_many ... : lines 98-101 and 110-113.
InsertReply(cmd, answer) ==
  IF answer.type = "ok" THEN Success
  ELSE Err(Format(IF cmd = "insertOne" THEN InsertOneError ELSE InsertManyError,
                  answer.msg))

\* The driver answers Ok: every document was stored.
DriverInsertOk(t) ==
  /\ task[t].pc \in {"insert_one", "insert_many"}
  /\ Reachable(task[t].db.server)
  /\ task[t].inserted = Len(Pending(task[t]))
  /\ task' = [task EXCEPT ![t] =
       Return(Answered(@, "ok"), InsertReply(@.cmd, Ok(@.inserted)))]
  /\ UNCHANGED <<store, handles>>

\* The driver answers Err: the server is out of reach, it rejected a
\* document after storing those before it, or its answer was lost.
DriverInsertErr(t) ==
  /\ task[t].pc \in {"insert_one", "insert_many"}
  /\ task' = [task EXCEPT ![t] =
       Return(Answered(@, "err"), InsertReply(@.cmd, Err(DriverError(@.db))))]
  /\ UNCHANGED <<store, handles>>

\* --------------------------------------------------------------- aggregate
AggregateStart(inv) ==
  LET pipeline == FromStrDocuments(inv.arg)
  IN IF pipeline.type = "err"
     THEN Return(inv, Err(Format(AggregateParseError, pipeline.msg)))
     ELSE Await(inv, "aggregate")

Aggregate(t, db, collection, pipeline) ==
  /\ Started(t, db, collection, pipeline)
  /\ task' = [task EXCEPT ![t] =
       AggregateStart(Invocation("aggregate", db, collection, pipeline))]
  /\ UNCHANGED <<store, handles>>

DriverAggregateOk(t) ==
  /\ task[t].pc = "aggregate"
  /\ Reachable(task[t].db.server)
  /\ task' = [task EXCEPT ![t] =
       Await([Answered(@, "ok") EXCEPT !.cursor =
                AggregateDocs(store[task[t].collection],
                              FromStrDocuments(task[t].arg).val)],
             "into_vec")]
  /\ UNCHANGED <<store, handles>>

DriverAggregateErr(t) ==
  /\ task[t].pc = "aggregate"
  /\ task' = [task EXCEPT ![t] =
       Return(Answered(@, "err"),
              Err(Format(AggregateExecuteError, DriverError(@.db))))]
  /\ UNCHANGED <<store, handles>>

\* ------------------------------------------------------------ the front-end
\* The host hands the handler's result to the front-end, which keeps a
\* returned handle for later calls; the slot is free again.
Deliver(t) ==
  /\ task[t].pc = "done"
  /\ handles' = IF task[t].cmd \in {"connectDBServer", "accessDB"}
                   /\ task[t].result.type = "ok"
                THEN handles \cup {task[t].result.val}
                ELSE handles
  /\ task' = [task EXCEPT ![t] = Idle]
  /\ UNCHANGED store

Next ==
  \E t \in Tasks :
    \/ \E server \in Servers, database \in Databases :
         ConnectDBServer(t, server, database)
    \/ \E db \in Handles : AccessDB(t, db)
    \/ \E db \in Handles, collection \in Collections, arg \in JsonTexts :
         \/ Find(t, db, collection, arg)
         \/ FindOne(t, db, collection, arg)
         \/ InsertOne(t, db, collection, arg)
         \/ InsertMany(t, db, collection, arg)
         \/ Aggregate(t, db, collection, arg)
    \/ DriverFindOk(t) \/ DriverFindErr(t)
    \/ DriverIntoVecOk(t) \/ DriverIntoVecPanic(t) \/ DriverIntoVecErr(t)
    \/ DriverFindOneOk(t) \/ DriverFindOnePanic(t) \/ DriverFindOneErr(t)
    \/ DriverInsertDoc(t) \/ DriverInsertOk(t) \/ DriverInsertErr(t)
    \/ DriverAggregateOk(t) \/ DriverAggregateErr(t)
    \/ Deliver(t)

Spec == Init /\ [][Next]_vars

\* ================================================================== claims
JsonCommands == {"find", "findOne", "insertOne", "insertMany", "aggregate"}
QueryCommands == {"find", "findOne", "aggregate"}
InsertCommands == {"insertOne", "insertMany"}
Terminated(t) == task[t].pc \in {"done", "panicked"}
Failed(t) == task[t].pc = "done" /\ task[t].result.type = "err"

\* C1: a command given malformed JSON in query / data / pipeline returns an
\* error string and issues no driver operation (no find, find_one,
\* insert_one, insert_many or aggregate) and stores nothing.
C1_MalformedNoDriverCall ==
  \A t \in Tasks :
    (task[t].cmd \in JsonCommands /\ task[t].arg = Malformed)
      => /\ Failed(t)
         /\ task[t].calls = << >>
         /\ task[t].answer = "none"
         /\ task[t].inserted = 0

C1_Witness ==
  \E t \in Tasks :
    /\ task[t].cmd = "find" /\ task[t].arg = Malformed
    /\ Failed(t) /\ task[t].result.msg.prefix = FindParseError

\* C2: a finished insertOne / insertMany returned "success" exactly when
\* the driver answered Ok (no insertion failed); after a parse failure or
\* a driver failure it returned an error string.
C2_SuccessIffDriverOk ==
  \A t \in Tasks :
    (task[t].cmd \in InsertCommands /\ task[t].pc = "done")
      => /\ (task[t].result = Success) <=> (task[t].answer = "ok")
         /\ (task[t].result # Success) => (task[t].result.type = "err")

C2_Witness ==
  \E t1, t2 \in Tasks :
    /\ task[t1].cmd = "insertOne" /\ task[t1].pc = "done"
    /\ task[t1].result = Success /\ task[t1].inserted = 1
    /\ task[t2].cmd = "insertMany" /\ Failed(t2) /\ task[t2].answer = "err"

\* C3: every failure ends with the command returning an error string; no
\* invocation ends in a panic.
C3_EveryFailureReturnsError ==
  \A t \in Tasks :
    /\ task[t].pc # "panicked"
    /\ (task[t].pc = "done" /\ task[t].answer # "ok" /\ task[t].cmd \in JsonCommands)
         => task[t].result.type = "err"

\* C4: a find whose filter parsed and whose driver operations answered Ok
\* returns the array of the matching documents; when no document matches
\* it returns [] : it neither fails nor panics on an empty result.
C4_FindEmptyIsSuccess ==
  \A t \in Tasks :
    (task[t].cmd = "find" /\ Len(task[t].calls) = 2)
      => /\ \A i \in 1..Len(task[t].cursor) :
              Matches(FromStrDocument(task[t].arg).val, task[t].cursor[i])
         /\ (Terminated(t) /\ task[t].answer = "ok" /\ task[t].cursor = << >>)
              => (task[t].pc = "done" /\ task[t].result = Ok(JsonArray(<< >>)))
         /\ (task[t].pc = "done" /\ task[t].answer = "ok")
              => task[t].result = Ok(JsonArray(task[t].cursor))

C4_Witness ==
  \E t \in Tasks :
    /\ task[t].cmd = "find" /\ task[t].arg = ObjectText({})
    /\ task[t].pc = "done" /\ task[t].cursor = << >>
    /\ task[t].result = Ok(JsonArray(<< >>))
    /\ store[task[t].collection] = << >>

\* C5 as stated: find, findOne and aggregate each pass the same three
\* fallible stages (parse, execute, materialize), so each that succeeded
\* has issued its execute operation and then materialized a cursor.
C5_SameThreeFailureClasses ==
  \A t \in Tasks :
    (task[t].cmd \in QueryCommands /\ task[t].pc = "done"
       /\ task[t].result.type = "ok")
      => (Len(task[t].calls) = 2 /\ task[t].calls[2] = "into_vec")

\* The stage at which a failed query command failed: 0 parse, 1 execute,
\* 2 materialize (the driver operations it had issued).
FailedStage(t) == Len(task[t].calls)

\* C5 amended: find and aggregate have three failure classes (parse,
\* execute, materialize), findOne has two (parse, execute: it materializes
\* no cursor); within one command two failures that carry the same error
\* string failed at the same stage.
C5_DistinctErrorPerStage ==
  /\ \A t \in Tasks :
       Failed(t) =>
         \/ task[t].cmd \in {"find", "aggregate"} /\ FailedStage(t) \in 0..2
         \/ task[t].cmd = "findOne" /\ FailedStage(t) \in 0..1
         \/ task[t].cmd \notin QueryCommands
  /\ \A t \in Tasks :
       task[t].cmd = "findOne" => "into_vec" \notin {task[t].calls[i] : i \in 1..Len(task[t].calls)}
  /\ \A t1, t2 \in Tasks :
       (Failed(t1) /\ Failed(t2) /\ task[t1].cmd = task[t2].cmd
          /\ task[t1].cmd \in QueryCommands
          /\ task[t1].result.msg.prefix = task[t2].result.msg.prefix)
         => FailedStage(t1) = FailedStage(t2)

C5_Witness ==
  \E t1, t2 \in Tasks :
    /\ task[t1].cmd = "find" /\ Failed(t1) /\ FailedStage(t1) = 1
    /\ task[t2].cmd = "find" /\ Failed(t2) /\ FailedStage(t2) = 2

\* C6 as stated: a finished insertMany either returned "success" with the
\* whole batch stored, or returned an error with none of the batch stored.
C6_AllOrNothing ==
  \A t \in Tasks :
    (task[t].cmd = "insertMany" /\ task[t].pc = "done")
      => \/ /\ task[t].result = Success
            /\ task[t].inserted = Len(FromStrDocuments(task[t].arg).val)
         \/ /\ task[t].result.type = "err"
            /\ task[t].inserted = 0

\* C6 amended: a finished insertMany returned "success" or an error string;
\* "success" means the whole batch was stored, a parse error means nothing
\* was stored, and an insert error leaves a prefix of the batch stored
\* (none, some or all of its documents) without saying which.
C6_SuccessMeansWholeBatch ==
  \A t \in Tasks :
    (task[t].cmd = "insertMany" /\ task[t].pc = "done")
      => \/ /\ task[t].result = Success
            /\ task[t].inserted = Len(FromStrDocuments(task[t].arg).val)
         \/ /\ task[t].result.type = "err"
            /\ task[t].calls = << >>
            /\ task[t].inserted = 0
         \/ /\ task[t].result.type = "err"
            /\ task[t].calls = <<"insert_many">>
            /\ task[t].inserted \in 0..Len(FromStrDocuments(task[t].arg).val)

C6_Witness ==
  \E t \in Tasks :
    /\ task[t].cmd = "insertMany" /\ Failed(t)
    /\ task[t].inserted = 1
    /\ Len(FromStrDocuments(task[t].arg).val) = 2

\* C7: every handle connectDBServer returns refers to a server that was
\* reached.
C7_HandleMeansReached ==
  \A t \in Tasks :
    (task[t].cmd = "connectDBServer" /\ task[t].pc = "done"
       /\ task[t].result.type = "ok")
      => Reachable(task[t].result.val.server)

\* C8: accessDB returns the handle it was given, never an error, issues no
\* driver operation, and passing its result through again gives the same.
C8_AccessDBPassthrough ==
  /\ \A t \in Tasks :
       (task[t].cmd = "accessDB" /\ task[t].pc # "idle")
         => /\ task[t].pc = "done"
            /\ task[t].result = Ok(task[t].db)
            /\ AccessReply(task[t].result.val) = task[t].result
            /\ task[t].calls = << >>
  /\ handles \subseteq Handles

C8_Witness ==
  \E t \in Tasks :
    /\ task[t].cmd = "accessDB" /\ task[t].pc = "done"
    /\ task[t].db \in handles /\ task[t].result = Ok(task[t].db)

\* The driver operations of a command, in the order of its stages.
Stages(cmd) ==
  CASE cmd = "find" -> <<"find", "into_vec">>
    [] cmd = "findOne" -> <<"find_one">>
    [] cmd = "insertOne" -> <<"insert_one">>
    [] cmd = "insertMany" -> <<"insert_many">>
    [] cmd = "aggregate" -> <<"aggregate", "into_vec">>
    [] cmd = "connectDBServer" -> <<"with_uri_str">>
    [] OTHER -> << >>

\* Nothing is retried and the stages run in order: the operations issued
\* are a prefix of the command's stages, each issued once.
StagesInOrder ==
  \A t \in Tasks :
    /\ Len(task[t].calls) <= Len(Stages(task[t].cmd))
    /\ task[t].calls = SubSeq(Stages(task[t].cmd), 1, Len(task[t].calls))
    /\ (Failed(t) /\ task[t].answer = "none") => task[t].calls = << >>
    /\ (task[t].calls # << >> /\ task[t].answer = "none")
         => task[t].pc = task[t].calls[1]

\* C9: stages run in order, each driver operation is issued at most once,
\* and an invocation that ended produced exactly one result.
C9_InOrderOnceOneResult ==
  /\ StagesInOrder
  /\ \A t \in Tasks : Terminated(t) => task[t].result.type \in {"ok", "err"}

\* C10: no step of a command changes the handle it was given, its own
\* command or arguments, another invocation, or a handle the front-end
\* holds; the collection contents change only by a pending insert_one /
\* insert_many storing its next document.
C10_StepKeepsSharedState ==
  /\ handles \subseteq handles'
  /\ \A t \in Tasks :
       (task[t].pc # "idle" /\ task'[t].pc # "idle")
         => /\ task'[t].db = task[t].db
            /\ task'[t].cmd = task[t].cmd
            /\ task'[t].arg = task[t].arg
            /\ task'[t].collection = task[t].collection
  /\ \A t1, t2 \in Tasks :
       (t1 # t2) => (task'[t1] = task[t1] \/ task'[t2] = task[t2])
  /\ (store' # store) =>
       \E t \in Tasks :
         /\ task[t].cmd \in InsertCommands
         /\ task[t].pc \in {"insert_one", "insert_many"}
         /\ task'[t].inserted = task[t].inserted + 1
         /\ store' = [store EXCEPT ![task[t].collection] =
              Append(@, Pending(task[t])[task'[t].inserted])]

\* C10: every step of every interleaving of commands sharing a handle keeps
\* the handle, the other invocations and the front-end's handles as they
\* were, and changes the collection contents only by an insert.
C10_RelayMutatesNothingShared == [][C10_StepKeepsSharedState]_vars

C10_Witness ==
  \E t1, t2 \in Tasks :
    /\ t1 # t2
    /\ task[t1].db = task[t2].db /\ task[t1].db \in handles
    /\ task[t1].pc = "insert_many" /\ task[t1].inserted = 1
    /\ task[t2].pc = "into_vec" /\ task[t2].cursor # << >>

====
